---- MODULE Spec2Model ----
(***************************************************************************)
(* A model of the sqlboiler orchestrator (core/boilingcore.go) driving the *)
(* MySQL driver (db/drivers/mysql.go).                                     *)
(*                                                                         *)
(*   Spec           one State.Run against a MySQL schema, followed by the  *)
(*                  caller's State.Cleanup calls                           *)
(*   SpecTranslate  MySQLDriver.TranslateColumnType on one raw column      *)
(***************************************************************************)
EXTENDS Integers, Sequences, FiniteSets, TLC

VARIABLES
    \* ---- core.State and its Config (boilingcore.go:19-24)
    Config,         \* the fields of *Config that Run reads
    Tables,         \* State.Tables
    \* ---- the MySQL driver and the database behind it
    dbConn,         \* MySQLDriver.dbConn: "nil", "open" or "closed"
    schemaDB,       \* names of the base tables that exist in the schema
    \* ---- the position of Run and what it has done so far
    pc,             \* position in Run / in the caller
    names,          \* db.Tables: the names TableNames returned
    building,       \* db.Tables: the tables assembled so far
    idx,            \* loop index (db.Tables loop, then Run's render loop)
    err,            \* the error Run returned (Nil while none)
    panicked,       \* "none", or the place a panic was raised
    outFolder,      \* what initOutFolder did to the output folder
    files,          \* files created by openFile
    renderLog,      \* the calls made to Render / RenderTest, in order
    calls,          \* the driver queries issued by the latest step
    openCalls,      \* number of Driver.Open calls
    closeCalls,     \* number of Driver.Close calls
    cleanupCalls,   \* number of State.Cleanup calls
    \* ---- TranslateColumnType
    TinyintAsBool,  \* the package global (mysql.go:18)
    colIn,          \* the column handed to TranslateColumnType
    colOut,         \* the column it returned
    tpc             \* "input" or "translated"

runVars == <<Config, Tables, dbConn, schemaDB, pc, names, building, idx, err,
             panicked, outFolder, files, renderLog, calls, openCalls,
             closeCalls, cleanupCalls>>
trVars == <<TinyintAsBool, colIn, colOut, tpc>>
vars == <<runVars, trVars>>

Nil == "<nil>"

(***************************************************************************)
(* MySQLDriver.TranslateColumnType                                         *)
(***************************************************************************)
NullPkg == "gopkg.in/nullbio/null.v6"
TypesPkg == "github.com/vattle/sqlboiler/types"

\* the arm of the nullable switch (mysql.go:278-346): <<PkgName, TypeName>>
NullableType(c, asBool) ==
    CASE c.DBType = "tinyint" ->
            IF asBool /\ c.FullDBType = "tinyint(1)" THEN <<NullPkg, "Bool">>
            ELSE IF c.Unsigned THEN <<NullPkg, "Uint8">> ELSE <<NullPkg, "Int8">>
      [] c.DBType = "smallint" ->
            IF c.Unsigned THEN <<NullPkg, "Uint16">> ELSE <<NullPkg, "Int16">>
      [] c.DBType = "mediumint" ->
            IF c.Unsigned THEN <<NullPkg, "Uint32">> ELSE <<NullPkg, "Int32">>
      [] c.DBType \in {"int", "integer"} ->
            IF c.Unsigned THEN <<NullPkg, "Uint">> ELSE <<NullPkg, "Int">>
      [] c.DBType = "bigint" ->
            IF c.Unsigned THEN <<NullPkg, "Uint64">> ELSE <<NullPkg, "Int64">>
      [] c.DBType = "float" -> <<NullPkg, "Float32">>
      [] c.DBType \in {"double", "double precision", "real"} -> <<NullPkg, "Float64">>
      [] c.DBType \in {"boolean", "bool"} -> <<NullPkg, "Bool">>
      [] c.DBType \in {"date", "datetime", "timestamp", "time"} -> <<NullPkg, "Time">>
      [] c.DBType \in {"binary", "varbinary", "tinyblob", "blob", "mediumblob",
                       "longblob"} -> <<NullPkg, "Bytes">>
      [] c.DBType = "json" -> <<TypesPkg, "JSON">>
      [] OTHER -> <<NullPkg, "String">>

\* the arm of the non-nullable switch (mysql.go:348-400); an arm that does not
\* assign PkgName leaves the column's PkgName as it came in
BareType(c, asBool) ==
    CASE c.DBType = "tinyint" ->
            IF asBool /\ c.FullDBType = "tinyint(1)" THEN <<c.PkgName, "bool">>
            ELSE IF c.Unsigned THEN <<c.PkgName, "uint8">> ELSE <<c.PkgName, "int8">>
      [] c.DBType = "smallint" ->
            IF c.Unsigned THEN <<c.PkgName, "uint16">> ELSE <<c.PkgName, "int16">>
      [] c.DBType = "mediumint" ->
            IF c.Unsigned THEN <<c.PkgName, "uint32">> ELSE <<c.PkgName, "int32">>
      [] c.DBType \in {"int", "integer"} ->
            IF c.Unsigned THEN <<c.PkgName, "uint">> ELSE <<c.PkgName, "int">>
      [] c.DBType = "bigint" ->
            IF c.Unsigned THEN <<c.PkgName, "uint64">> ELSE <<c.PkgName, "int64">>
      [] c.DBType = "float" -> <<c.PkgName, "float32">>
      [] c.DBType \in {"double", "double precision", "real"} -> <<c.PkgName, "float64">>
      [] c.DBType \in {"boolean", "bool"} -> <<c.PkgName, "bool">>
      [] c.DBType \in {"date", "datetime", "timestamp", "time"} -> <<"time", "Time">>
      [] c.DBType \in {"binary", "varbinary", "tinyblob", "blob", "mediumblob",
                       "longblob"} -> <<c.PkgName, "[]byte">>
      [] c.DBType = "json" -> <<TypesPkg, "JSON">>
      [] OTHER -> <<c.PkgName, "string">>

TranslateColumnType(c, asBool) ==
    LET t == IF c.Nullable THEN NullableType(c, asBool) ELSE BareType(c, asBool)
    IN  [c EXCEPT !.PkgName = t[1], !.TypeName = t[2]]

\* db.Column as MySQLDriver.Columns builds it from one result row
\* (mysql.go:168-179): PkgName and TypeName are left at their zero value
NewColumn(row) ==
    [Name |-> row.colName, FullDBType |-> row.colFullType, DBType |-> row.colType,
     Nullable |-> row.nullable, Unsigned |-> row.unsigned, Unique |-> row.unique,
     Default |-> IF row.defaultValue # Nil /\ row.defaultValue # "NULL"
                 THEN row.defaultValue ELSE "",
     PkgName |-> "", TypeName |-> ""]

(***************************************************************************)
(* The database behind the driver.  The schema is a subset of a fixed      *)
(* catalogue of base tables; information_schema returns rows in catalogue  *)
(* order.                                                                  *)
(***************************************************************************)
TableOrder == <<"users", "friends", "logs", "roles", "audit">>
TableUniverse == {TableOrder[i] : i \in DOMAIN TableOrder}

RawCol(n, full, typ, def, nullable, unsigned, unique) ==
    [colName |-> n, colFullType |-> full, colType |-> typ, defaultValue |-> def,
     nullable |-> nullable, unsigned |-> unsigned, unique |-> unique]

FKeyRow(n, col, ftable, fcol) ==
    [Name |-> n, Column |-> col, ForeignTable |-> ftable, ForeignColumn |-> fcol]

\* *db.PrimaryKey: the nil pointer, or a key with its name and columns
NilPKey == [isNil |-> TRUE, Name |-> "", Columns |-> << >>]
PKeyOf(n, cols) == [isNil |-> FALSE, Name |-> n, Columns |-> cols]

\* what information_schema holds for each table of the catalogue
Catalog(t) ==
    CASE t = "users" ->
            [columns |-> << RawCol("id", "int(10) unsigned", "int", "auto_increment",
                                   FALSE, TRUE, TRUE),
                            RawCol("name", "varchar(255)", "varchar", Nil,
                                   FALSE, FALSE, FALSE) >>,
             pkey |-> PKeyOf("PRIMARY", <<"id">>),
             fkeys |-> << >>]
      [] t = "friends" ->
            [columns |-> << RawCol("user_id", "int(10) unsigned", "int", Nil,
                                   FALSE, TRUE, FALSE),
                            RawCol("friend_id", "int(10) unsigned", "int", Nil,
                                   FALSE, TRUE, FALSE) >>,
             pkey |-> PKeyOf("PRIMARY", <<"user_id", "friend_id">>),
             fkeys |-> << FKeyRow("fk_user", "user_id", "users", "id"),
                          FKeyRow("fk_friend", "friend_id", "users", "id") >>]
      [] t = "logs" ->
            [columns |-> << RawCol("msg", "text", "text", "NULL", TRUE, FALSE, FALSE),
                            RawCol("at", "datetime", "datetime", Nil,
                                   FALSE, FALSE, FALSE) >>,
             pkey |-> NilPKey,
             fkeys |-> << >>]
      [] t = "roles" ->
            [columns |-> << RawCol("id", "smallint(5) unsigned", "smallint",
                                   "auto_increment", FALSE, TRUE, TRUE),
                            RawCol("active", "tinyint(1)", "tinyint", "1",
                                   TRUE, FALSE, FALSE) >>,
             pkey |-> PKeyOf("PRIMARY", <<"id">>),
             fkeys |-> << >>]
      [] OTHER ->
            [columns |-> << RawCol("user_id", "int(10) unsigned", "int", Nil,
                                   FALSE, TRUE, FALSE),
                            RawCol("note", "json", "json", Nil, TRUE, FALSE, FALSE) >>,
             pkey |-> NilPKey,
             fkeys |-> << FKeyRow("fk_audit_user", "user_id", "users", "id") >>]

\* a foreign key needs its referenced table: the schemas a database can hold
Schemas ==
    {S \in SUBSET TableUniverse :
        \A t \in S : \A i \in DOMAIN Catalog(t).fkeys :
            Catalog(t).fkeys[i].ForeignTable \in S}

Range(s) == {s[i] : i \in DOMAIN s}

(***************************************************************************)
(* database/sql as the driver uses it.  A query either fails outright, or  *)
(* yields rows of which one fails to scan, or of which the iteration stops *)
(* early with rows.Err() set, or runs clean.                               *)
(***************************************************************************)
NoFault == [kind |-> "none", at |-> 0]

Faults(rows) ==
    {NoFault, [kind |-> "query", at |-> 0]}
    \cup {[kind |-> "scan", at |-> k] : k \in 1..Len(rows)}
    \cup {[kind |-> "iter", at |-> k] : k \in 0..Len(rows)}

\* the rows a `for rows.Next() { rows.Scan(..) }` loop scans successfully
Scanned(rows, fault) ==
    CASE fault.kind = "scan" -> SubSeq(rows, 1, fault.at - 1)
      [] fault.kind = "iter" -> SubSeq(rows, 1, fault.at)
      [] OTHER -> rows

Result(val, e) == [val |-> val, err |-> e]

\* one driver query as the orchestrator's log records it
Call(op, table, fault, r) ==
    [op |-> op, table |-> table, fault |-> fault.kind, failed |-> r.err # Nil,
     val |-> r.val]

(***************************************************************************)
(* MySQLDriver.TableNames                                                  *)
(***************************************************************************)
\* the query text and arguments built at mysql.go:95-107
TableNamesQuery(whitelist, blacklist) ==
    IF Len(whitelist) > 0 THEN [filter |-> "in", args |-> whitelist]
    ELSE IF Len(blacklist) > 0 THEN [filter |-> "not in", args |-> blacklist]
    ELSE [filter |-> "none", args |-> << >>]

\* the rows information_schema.tables yields for that query
TableNamesRows(schema, q) ==
    LET Keep(n) == /\ n \in schema
                   /\ q.filter = "in" => n \in Range(q.args)
                   /\ q.filter = "not in" => n \notin Range(q.args)
    IN  SelectSeq(TableOrder, Keep)

\* mysql.go:109-124: the loop's end is returned as success, rows.Err() unread
TableNames(schema, whitelist, blacklist, fault) ==
    LET rows == TableNamesRows(schema, TableNamesQuery(whitelist, blacklist))
    IN  IF fault.kind = "query" THEN Result(<< >>, "query failed")
        ELSE IF fault.kind = "scan" THEN Result(<< >>, "scan failed")
        ELSE Result(Scanned(rows, fault), Nil)

(***************************************************************************)
(* MySQLDriver.Columns, PrimaryKeyInfo, ForeignKeyInfo                     *)
(***************************************************************************)
\* mysql.go:131-185: as TableNames, rows.Err() is not read
Columns(tableName, fault) ==
    LET rows == Catalog(tableName).columns
        got == Scanned(rows, fault)
    IN  IF fault.kind = "query" THEN Result(<< >>, "query failed")
        ELSE IF fault.kind = "scan" THEN Result(<< >>, "unable to scan for table")
        ELSE Result([i \in DOMAIN got |-> NewColumn(got[i])], Nil)

\* mysql.go:188-235: `first` is the fault of the QueryRow, `fault` that of the
\* key-columns query; sql.ErrNoRows is the "no primary key" answer
PrimaryKeyInfo(tableName, first, fault) ==
    LET pk == Catalog(tableName).pkey
    IN  IF first.kind # "none" THEN Result(NilPKey, "query failed")
        ELSE IF pk.isNil THEN Result(NilPKey, Nil)
        ELSE IF fault.kind = "query" THEN Result(NilPKey, "query failed")
        ELSE IF fault.kind = "scan" THEN Result(NilPKey, "scan failed")
        ELSE IF fault.kind = "iter" THEN Result(NilPKey, "rows.Err")
        ELSE Result(PKeyOf(pk.Name, Scanned(pk.Columns, fault)), Nil)

\* mysql.go:238-271
ForeignKeyInfo(tableName, fault) ==
    LET rows == Catalog(tableName).fkeys
        got == Scanned(rows, fault)
    IN  IF fault.kind = "query" THEN Result(<< >>, "query failed")
        ELSE IF fault.kind = "scan" THEN Result(<< >>, "scan failed")
        ELSE IF fault.kind = "iter" THEN Result(<< >>, "rows.Err")
        ELSE Result([i \in DOMAIN got |->
                        [Name |-> got[i].Name, Table |-> tableName,
                         Column |-> got[i].Column,
                         ForeignTable |-> got[i].ForeignTable,
                         ForeignColumn |-> got[i].ForeignColumn]], Nil)

(***************************************************************************)
(* db.Tables: the schema assembler.  It calls the driver for the table     *)
(* names and then, per name, for columns, primary key and foreign keys.    *)
(***************************************************************************)
\* join-table detection: every column is a foreign-key column, the primary
\* key (if any) is made of foreign-key columns, and there are two foreign keys
setIsJoinTable(t) ==
    LET fkCols == {t.FKeys[i].Column : i \in DOMAIN t.FKeys}
    IN  /\ Len(t.FKeys) = 2
        /\ \A i \in DOMAIN t.Columns : t.Columns[i].Name \in fkCols
        /\ t.PKey.isNil \/ Range(t.PKey.Columns) \subseteq fkCols

\* one table as db.Tables assembles it from the three driver answers
NewTable(name, cols, pk, fks) ==
    LET t == [Name |-> name,
              Columns |-> [i \in DOMAIN cols |-> TranslateColumnType(cols[i], FALSE)],
              PKey |-> pk, FKeys |-> fks, IsJoinTable |-> FALSE]
    IN  [t EXCEPT !.IsJoinTable = setIsJoinTable(t)]

\* the faults of the four queries behind one table: a query that fails ends
\* the assembly, so the later queries of a plan run only after clean or
\* silently shortened earlier ones
FaultPlans(cat) ==
    LET fatal(f) == f.kind \in {"query", "scan"}
        quiet(rows) == {f \in Faults(rows) : ~fatal(f)}
    IN  {<<fc, NoFault, NoFault, NoFault>> : fc \in {f \in Faults(cat.columns) : fatal(f)}}
        \cup {<<fc, [kind |-> "query", at |-> 0], NoFault, NoFault>> :
                    fc \in quiet(cat.columns)}
        \cup {<<fc, NoFault, fp2, NoFault>> :
                    fc \in quiet(cat.columns),
                    fp2 \in IF cat.pkey.isNil THEN {}
                            ELSE Faults(cat.pkey.Columns) \ {NoFault}}
        \cup {<<fc, NoFault, NoFault, ff>> :
                    fc \in quiet(cat.columns), ff \in Faults(cat.fkeys)}

\* the driver calls for one table, stopping at the first that fails
AssembleTable(name, fc, fp1, fp2, ff) ==
    LET c == Columns(name, fc)
        p == PrimaryKeyInfo(name, fp1, fp2)
        pf == IF fp1.kind # "none" THEN fp1 ELSE fp2
        f == ForeignKeyInfo(name, ff)
    IN  IF c.err # Nil
        THEN [err |-> c.err, calls |-> << Call("Columns", name, fc, c) >>]
        ELSE IF p.err # Nil
        THEN [err |-> p.err, calls |-> << Call("Columns", name, fc, c),
                                         Call("PrimaryKeyInfo", name, pf, p) >>]
        ELSE [err |-> f.err,
              table |-> NewTable(name, c.val, p.val, f.val),
              calls |-> << Call("Columns", name, fc, c),
                           Call("PrimaryKeyInfo", name, pf, p),
                           Call("ForeignKeyInfo", name, ff, f) >>]

(***************************************************************************)
(* core.State: initTables, checkPKeys                                      *)
(***************************************************************************)
NoErr == [msg |-> Nil, tables |-> << >>, wrap |-> << >>]
Err(msg) == [msg |-> msg, tables |-> << >>, wrap |-> << >>]
Wrap(e, ctx) == [e EXCEPT !.wrap = <<ctx>> \o @]

\* the loop of boilingcore.go:233-237 from table i on
RECURSIVE missingPkeyFrom(_, _)
missingPkeyFrom(tables, i) ==
    IF i > Len(tables) THEN << >>
    ELSE (IF tables[i].PKey.isNil THEN << tables[i].Name >> ELSE << >>)
         \o missingPkeyFrom(tables, i + 1)

\* a checkPKeys that stops at the first table without a key
RECURSIVE firstMissingPkeyFrom(_, _)
firstMissingPkeyFrom(tables, i) ==
    IF i > Len(tables) THEN << >>
    ELSE IF tables[i].PKey.isNil THEN << tables[i].Name >>
    ELSE firstMissingPkeyFrom(tables, i + 1)

checkPKeysFirstOnly(tables) ==
    LET missingPkey == firstMissingPkeyFrom(tables, 1)
    IN  IF Len(missingPkey) # 0
        THEN [Err("primary key missing in tables") EXCEPT !.tables = missingPkey]
        ELSE NoErr

\* boilingcore.go:231-244; the message joins the names in `tables` with ", "
checkPKeys(tables) ==
    LET missingPkey == missingPkeyFrom(tables, 1)
    IN  IF Len(missingPkey) # 0
        THEN [Err("primary key missing in tables") EXCEPT !.tables = missingPkey]
        ELSE NoErr

\* an initTables that skips the primary-key validation
initTablesNoCheck(res) ==
    IF res.err # Nil
    THEN [Tables |-> res.val, err |-> Wrap(Err(res.err), "unable to fetch table data")]
    ELSE IF Len(res.val) = 0
    THEN [Tables |-> res.val, err |-> Err("no tables found in database")]
    ELSE [Tables |-> res.val, err |-> NoErr]

\* an initTables that validates the fetched tables before storing them
initTablesDiscard(res) ==
    IF res.err # Nil
    THEN [Tables |-> << >>, err |-> Wrap(Err(res.err), "unable to fetch table data")]
    ELSE IF Len(res.val) = 0
    THEN [Tables |-> << >>, err |-> Err("no tables found in database")]
    ELSE IF checkPKeys(res.val) # NoErr
    THEN [Tables |-> << >>, err |-> checkPKeys(res.val)]
    ELSE [Tables |-> res.val, err |-> NoErr]

\* boilingcore.go:201-217 given what db.Tables returned: the new s.Tables and
\* the error initTables returns
initTables(res) ==
    IF res.err # Nil
    THEN [Tables |-> res.val, err |-> Wrap(Err(res.err), "unable to fetch table data")]
    ELSE IF Len(res.val) = 0
    THEN [Tables |-> res.val, err |-> Err("no tables found in database")]
    ELSE [Tables |-> res.val, err |-> checkPKeys(res.val)]

(***************************************************************************)
(* State.Run, step by step, and State.Cleanup                              *)
(***************************************************************************)
MaxCleanupCalls == 1

\* the allowlists and denylists a configuration is drawn from
Lists == { << >>, <<"logs", "users", "orders">> }

Configs ==
    [WhitelistTables : Lists, BlacklistTables : Lists, NoTests : BOOLEAN,
     HasTestRenderer : BOOLEAN, Wipe : BOOLEAN, Debug : BOOLEAN]

NoColumn == NewColumn(RawCol("", "", "", Nil, FALSE, FALSE, FALSE))

\* the translator's variables while the orchestrator runs
TranslateIdle ==
    /\ TinyintAsBool = FALSE
    /\ colIn = NoColumn
    /\ colOut = NoColumn
    /\ tpc = "idle"

\* core.New with the mysql driver (boilingcore.go:27-42, mysql.go:31-37)
Init ==
    /\ Config \in Configs
    /\ schemaDB \in Schemas
    /\ Tables = << >>
    /\ dbConn = "nil"
    /\ pc = "New"
    /\ names = << >>
    /\ building = << >>
    /\ idx = 0
    /\ err = NoErr
    /\ panicked = "none"
    /\ outFolder = [wiped |-> FALSE, made |-> FALSE]
    /\ files = {}
    /\ renderLog = << >>
    /\ calls = << >>
    /\ openCalls = 0
    /\ closeCalls = 0
    /\ cleanupCalls = 0
    /\ TranslateIdle

\* Run returns e
Return(e) ==
    /\ pc' = "returned"
    /\ err' = e

\* boilingcore.go:66-68 with MySQLDriver.Open (mysql.go:64-72): sql.Open
\* hands back a nil handle together with its error
RunOpen ==
    /\ pc = "New"
    /\ openCalls' = openCalls + 1
    /\ \E ok \in BOOLEAN :
        IF ok
        THEN /\ dbConn' = "open"
             /\ pc' = "initTables"
             /\ err' = err
        ELSE /\ dbConn' = "nil"
             /\ Return(Wrap(Err("sql.Open failed"), "unable to connect to the database"))
    /\ UNCHANGED <<Config, Tables, schemaDB, names, building, idx, panicked,
                   outFolder, files, renderLog, calls, closeCalls, cleanupCalls>>
    /\ UNCHANGED trVars

\* boilingcore.go:70-73 once db.Tables has returned res; the locals of
\* db.Tables are gone
InitTablesReturn(res) ==
    LET r == initTables(res)
    IN  /\ Tables' = r.Tables
        /\ names' = << >>
        /\ building' = << >>
        /\ idx' = 0
        /\ IF r.err = NoErr
           THEN /\ pc' = "debug"
                /\ err' = err
           ELSE Return(Wrap(r.err, "unable to initialize tables"))

\* db.Tables, first half: the table names
DbTableNames ==
    /\ pc = "initTables"
    /\ \E fault \in Faults(TableNamesRows(schemaDB,
                       TableNamesQuery(Config.WhitelistTables, Config.BlacklistTables))) :
        LET r == TableNames(schemaDB, Config.WhitelistTables,
                            Config.BlacklistTables, fault)
        IN  /\ calls' = << Call("TableNames", "", fault, r) >>
            /\ IF r.err # Nil
               THEN InitTablesReturn(Result(<< >>, r.err))
               ELSE IF Len(r.val) = 0
               THEN InitTablesReturn(Result(<< >>, Nil))
               ELSE /\ names' = r.val
                    /\ building' = << >>
                    /\ idx' = 1
                    /\ pc' = "assemble"
                    /\ UNCHANGED <<Tables, err>>
    /\ UNCHANGED <<Config, dbConn, schemaDB, panicked, outFolder, files, renderLog,
                   openCalls, closeCalls, cleanupCalls>>
    /\ UNCHANGED trVars

\* db.Tables, second half: one pass of its loop over the names
DbAssemble ==
    /\ pc = "assemble"
    /\ LET name == names[idx]
           cat == Catalog(name)
       IN  \E plan \in FaultPlans(cat) :
            LET a == AssembleTable(name, plan[1], plan[2], plan[3], plan[4])
            IN  /\ calls' = a.calls
                /\ IF a.err # Nil
                   THEN InitTablesReturn(Result(<< >>, a.err))
                   ELSE IF idx = Len(names)
                   THEN InitTablesReturn(Result(Append(building, a.table), Nil))
                   ELSE /\ building' = Append(building, a.table)
                        /\ idx' = idx + 1
                        /\ UNCHANGED <<Tables, pc, err, names>>
    /\ UNCHANGED <<Config, dbConn, schemaDB, panicked, outFolder, files,
                   renderLog, openCalls, closeCalls, cleanupCalls>>
    /\ UNCHANGED trVars

\* boilingcore.go:75-81
RunDebug ==
    /\ pc = "debug"
    /\ IF Config.Debug
       THEN \E ok \in BOOLEAN :
                IF ok THEN pc' = "initOutFolder" /\ err' = err
                ELSE Return(Wrap(Err("json: marshal failed"),
                                 "unable to json marshal tables"))
       ELSE pc' = "initOutFolder" /\ err' = err
    /\ UNCHANGED <<Config, Tables, dbConn, schemaDB, names, building, idx, panicked,
                   outFolder, files, renderLog, calls, openCalls, closeCalls,
                   cleanupCalls>>
    /\ UNCHANGED trVars

\* boilingcore.go:83-86 with initOutFolder (boilingcore.go:220-228)
RunInitOutFolder ==
    /\ pc = "initOutFolder"
    /\ \E outcome \in {"RemoveAll failed", "MkdirAll failed", "ok"} :
        /\ outcome = "RemoveAll failed" => Config.Wipe
        /\ outFolder' = [wiped |-> Config.Wipe /\ outcome # "RemoveAll failed",
                         made |-> outcome = "ok"]
        /\ IF outcome = "ok"
           THEN /\ pc' = "loop"
                /\ idx' = 1
                /\ err' = err
           ELSE /\ Return(Wrap(Err(outcome), "unable to initialize the output folder"))
                /\ idx' = idx
    /\ UNCHANGED <<Config, Tables, dbConn, schemaDB, names, building, panicked,
                   files, renderLog, calls, openCalls, closeCalls, cleanupCalls>>
    /\ UNCHANGED trVars

\* boilingcore.go:95-100
TemplateData(table) == [Tables |-> Tables, Table |-> table]

\* a render loop that renders join tables too
ShouldSkipNever(table) == FALSE

\* boilingcore.go:102-104
ShouldSkip(table) == table.IsJoinTable

\* a closure that swallows the renderer's error
RenderResultSwallowed(failed, ctx) == NoErr

\* boilingcore.go:115-119 and 134-137: what the closure returns
RenderResult(failed, ctx) ==
    IF failed THEN Wrap(Err("render failed"), ctx) ELSE NoErr

\* boilingcore.go:124
WantsTests == ~Config.NoTests /\ Config.HasTestRenderer

\* boilingcore.go:93, 144: the loop is over
RunLoopReturn ==
    /\ pc = "loop"
    /\ idx > Len(Tables)
    /\ Return(NoErr)
    /\ UNCHANGED <<Config, Tables, dbConn, schemaDB, names, building, idx, panicked,
                   outFolder, files, renderLog, calls, openCalls, closeCalls,
                   cleanupCalls>>
    /\ UNCHANGED trVars

RunSkipJoin ==
    /\ pc = "loop"
    /\ idx <= Len(Tables)
    /\ ShouldSkip(Tables[idx])
    /\ idx' = idx + 1
    /\ UNCHANGED <<Config, Tables, dbConn, schemaDB, pc, names, building, err,
                   panicked, outFolder, files, renderLog, calls, openCalls,
                   closeCalls, cleanupCalls>>
    /\ UNCHANGED trVars

\* one of the two closures of the loop body: open the file, call the renderer
RenderInto(fn, suffix, ctx, next) ==
    LET table == Tables[idx]
    IN  \E outcome \in {"openFile failed", "render failed", "ok"} :
          IF outcome = "openFile failed"
          THEN /\ pc' = "panicked"
               /\ panicked' = "openFile"
               /\ UNCHANGED <<files, renderLog, idx, err>>
          ELSE /\ files' = files \cup {<<table.Name, suffix>>}
               /\ renderLog' = Append(renderLog,
                                  [fn |-> fn, data |-> TemplateData(table),
                                   failed |-> outcome = "render failed"])
               /\ panicked' = panicked
               /\ LET e == RenderResult(outcome = "render failed", ctx)
                  IN  IF e # NoErr
                      THEN Return(e) /\ idx' = idx
                      ELSE /\ err' = err
                           /\ pc' = next
                           /\ idx' = IF next = "loop" THEN idx + 1 ELSE idx

\* boilingcore.go:106-122
RunRender ==
    /\ pc = "loop"
    /\ idx <= Len(Tables)
    /\ ~ShouldSkip(Tables[idx])
    /\ RenderInto("Render", "_gen.go", "unable to generate output",
                  IF WantsTests THEN "test" ELSE "loop")
    /\ UNCHANGED <<Config, Tables, dbConn, schemaDB, names, building, outFolder,
                   calls, openCalls, closeCalls, cleanupCalls>>
    /\ UNCHANGED trVars

\* boilingcore.go:124-141
RunRenderTest ==
    /\ pc = "test"
    /\ RenderInto("RenderTest", "_test_gen.go", "unable to generate test output", "loop")
    /\ UNCHANGED <<Config, Tables, dbConn, schemaDB, names, building, outFolder,
                   calls, openCalls, closeCalls, cleanupCalls>>
    /\ UNCHANGED trVars

\* State.Cleanup (boilingcore.go:161-164) with MySQLDriver.Close (mysql.go:75-77),
\* called by the owner of the State after Run has returned; (*sql.DB).Close on
\* the nil handle dereferences it
Cleanup ==
    /\ pc = "returned"
    /\ cleanupCalls < MaxCleanupCalls
    /\ cleanupCalls' = cleanupCalls + 1
    /\ closeCalls' = closeCalls + 1
    /\ IF dbConn = "nil"
       THEN /\ pc' = "panicked"
            /\ panicked' = "Close"
            /\ dbConn' = dbConn
       ELSE /\ dbConn' = "closed"
            /\ UNCHANGED <<pc, panicked>>
    /\ UNCHANGED <<Config, Tables, schemaDB, names, building, idx, err, outFolder,
                   files, renderLog, calls, openCalls>>
    /\ UNCHANGED trVars

Next ==
    \/ RunOpen
    \/ DbTableNames
    \/ DbAssemble
    \/ RunDebug
    \/ RunInitOutFolder
    \/ RunLoopReturn
    \/ RunSkipJoin
    \/ RunRender
    \/ RunRenderTest
    \/ Cleanup

Spec == Init /\ [][Next]_vars

(***************************************************************************)
(* TranslateColumnType on its own: every raw descriptor, either setting of *)
(* the global switch.                                                      *)
(***************************************************************************)
DBTypes ==
    {"tinyint", "smallint", "mediumint", "int", "integer", "bigint", "float",
     "double", "double precision", "real", "boolean", "bool", "date", "datetime",
     "timestamp", "time", "binary", "varbinary", "tinyblob", "blob", "mediumblob",
     "longblob", "json", "varchar", "text", "decimal", "enum('a','b')", ""}

FullDBTypes == {"tinyint(1)", "tinyint(4)", "int(10) unsigned", "varchar(255)"}

RawColumns ==
    {NewColumn(RawCol("c", full, typ, Nil, nullable, unsigned, FALSE)) :
        full \in FullDBTypes, typ \in DBTypes, nullable \in BOOLEAN,
        unsigned \in BOOLEAN}

\* the orchestrator's variables while the translator is exercised alone
RunIdle ==
    /\ Config = [WhitelistTables |-> << >>, BlacklistTables |-> << >>,
                 NoTests |-> FALSE, HasTestRenderer |-> FALSE, Wipe |-> FALSE,
                 Debug |-> FALSE]
    /\ schemaDB = {}
    /\ Tables = << >>
    /\ dbConn = "nil"
    /\ pc = "idle"
    /\ names = << >>
    /\ building = << >>
    /\ idx = 0
    /\ err = NoErr
    /\ panicked = "none"
    /\ outFolder = [wiped |-> FALSE, made |-> FALSE]
    /\ files = {}
    /\ renderLog = << >>
    /\ calls = << >>
    /\ openCalls = 0
    /\ closeCalls = 0
    /\ cleanupCalls = 0

InitTranslate ==
    /\ TinyintAsBool \in BOOLEAN
    /\ colIn \in RawColumns
    /\ colOut = NoColumn
    /\ tpc = "input"
    /\ RunIdle

\* one call of MySQLDriver.TranslateColumnType (mysql.go:276-404)
Translate ==
    /\ tpc = "input"
    /\ colOut' = TranslateColumnType(colIn, TinyintAsBool)
    /\ tpc' = "translated"
    /\ UNCHANGED <<TinyintAsBool, colIn>>
    /\ UNCHANGED runVars

NextTranslate == Translate

SpecTranslate == InitTranslate /\ [][NextTranslate]_vars

(***************************************************************************)
(* Properties                                                              *)
(***************************************************************************)
OpenFailed == openCalls > 0 /\ dbConn = "nil"

RunReturned == pc = "returned" \/ (pc = "panicked" /\ panicked = "Close")
RunSucceeded == RunReturned /\ err = NoErr
RunFailed == RunReturned /\ err # NoErr

\* the process has died in a panic, or Run has returned and the owner of the
\* State has made its Cleanup call
RunOver == pc = "panicked" \/ (pc = "returned" /\ cleanupCalls = 1)

TableNamesOf(tables) == {tables[i].Name : i \in DOMAIN tables}
IsNonJoin(t) == ~t.IsJoinTable
IsRender(c) == c.fn = "Render"

\* C1: once a run in which Open was attempted is over, Close has been invoked
\* exactly once, whether Run returned nil, returned an error or panicked
C1_CloseExactlyOnce ==
    (openCalls > 0 /\ RunOver) => closeCalls = 1

\* C2: when Open fails, Run returns an error without any driver query having
\* been issued, and the Close that follows does not panic
C2_OpenFailureSafe ==
    OpenFailed =>
        /\ calls = << >>
        /\ pc \in {"returned", "panicked"} /\ err # NoErr
        /\ panicked # "Close"

\* C3: a Render or RenderTest call that returned an error is the last call
\* made to the renderer, and Run has returned an error
C3_FailFast ==
    \A i \in DOMAIN renderLog :
        renderLog[i].failed =>
            /\ i = Len(renderLog)
            /\ pc = "returned"
            /\ err # NoErr

\* C3 witness: a renderer call failed while a later table was still to render
C3_Witness ==
    /\ renderLog # << >>
    /\ renderLog[Len(renderLog)].failed
    /\ \E j \in DOMAIN Tables : j > idx /\ IsNonJoin(Tables[j])

OutputTouched ==
    \/ outFolder.wiped
    \/ outFolder.made
    \/ renderLog # << >>
    \/ files # {}

\* C4: once the output folder has been wiped or created, a file created or
\* the renderer called, the table list is non-empty and every table has a
\* primary key; a run that failed for want of tables or of a primary key has
\* touched no output
C4_ValidatedBeforeOutput ==
    /\ OutputTouched =>
        /\ Len(Tables) > 0
        /\ \A i \in DOMAIN Tables : ~Tables[i].PKey.isNil
    /\ (RunFailed /\ err.msg \in {"no tables found in database",
                                  "primary key missing in tables"}) => ~OutputTouched

\* C4 witness: files were written for a schema of several tables
C4_Witness ==
    /\ outFolder.wiped
    /\ Cardinality(files) >= 2
    /\ Len(Tables) >= 3

\* C5: when tables lack a primary key, initTables fails with one error that
\* names exactly the tables whose key is absent, each once
C5_AllOffendersNamed ==
    LET offenders == {Tables[i].Name : i \in {j \in DOMAIN Tables : Tables[j].PKey.isNil}}
    IN  /\ (pc \notin {"New", "initTables", "assemble"} /\ offenders # {}) =>
                /\ RunFailed
                /\ err.msg = "primary key missing in tables"
        /\ err.msg = "primary key missing in tables" =>
                /\ offenders # {}
                /\ Range(err.tables) = offenders
                /\ Len(err.tables) = Cardinality(offenders)

\* C5 witness: two tables without a key, and one with a key between them
C5_Witness ==
    /\ err.msg = "primary key missing in tables"
    /\ Len(err.tables) >= 2
    /\ \E i, j, k \in DOMAIN Tables :
        /\ i < j /\ j < k
        /\ Tables[i].PKey.isNil /\ ~Tables[j].PKey.isNil /\ Tables[k].PKey.isNil

\* C6: in a run that returned success, Render was called once per non-join
\* table, in table order, each time with that table and the whole table list,
\* never for a join table, and the files written are those of the non-join
\* tables
C6_RenderedExactlyNonJoin ==
    RunSucceeded =>
        LET rendered == SelectSeq(renderLog, IsRender)
            expected == SelectSeq(Tables, IsNonJoin)
        IN  /\ Len(rendered) = Len(expected)
            /\ \A i \in DOMAIN rendered :
                rendered[i].data = [Tables |-> Tables, Table |-> expected[i]]
            /\ {f[1] : f \in files} = TableNamesOf(expected)

\* C6 witness: a successful run over a join table between two other tables
C6_Witness ==
    /\ RunSucceeded
    /\ \E i, j, k \in DOMAIN Tables :
        /\ i < j /\ j < k
        /\ IsNonJoin(Tables[i]) /\ Tables[j].IsJoinTable /\ IsNonJoin(Tables[k])

\* what TableNames is to return for the schema and the configured lists
FilterHolds(got) ==
    LET wl == Range(Config.WhitelistTables)
        bl == Range(Config.BlacklistTables)
    IN  IF wl # {} THEN got \subseteq (wl \cap schemaDB)
        ELSE IF bl # {} THEN got = schemaDB \ bl
        ELSE got = schemaDB

\* C7: a TableNames call that succeeds returns only names of the allowlist
\* that exist when there is an allowlist, else exactly the existing tables
\* outside the denylist, else exactly the existing tables
C7_TableNamesFilter ==
    \A i \in DOMAIN calls :
        (calls[i].op = "TableNames" /\ ~calls[i].failed) =>
            FilterHolds(Range(calls[i].val))

\* the filter on its own: C7 for the calls whose row iteration ran clean
TableNamesFilterClean ==
    \A i \in DOMAIN calls :
        (calls[i].op = "TableNames" /\ calls[i].fault = "none") =>
            /\ ~calls[i].failed
            /\ FilterHolds(Range(calls[i].val))
            /\ Config.WhitelistTables # << >> =>
                Range(calls[i].val) = Range(Config.WhitelistTables) \cap schemaDB

\* C8: the translation of a nullable column differs, in package and type
\* name, from the translation of the same column declared not nullable
C8_NullableDiffers ==
    (tpc = "translated" /\ colIn.Nullable) =>
        LET bare == TranslateColumnType([colIn EXCEPT !.Nullable = FALSE],
                                        TinyintAsBool)
        IN  <<colOut.PkgName, colOut.TypeName>> # <<bare.PkgName, bare.TypeName>>

\* the nearby statement that holds: C8 for every type but json
NullableDiffersButJSON ==
    (tpc = "translated" /\ colIn.Nullable /\ colIn.DBType # "json") =>
        LET bare == TranslateColumnType([colIn EXCEPT !.Nullable = FALSE],
                                        TinyintAsBool)
        IN  /\ colOut.PkgName = NullPkg
            /\ <<colOut.PkgName, colOut.TypeName>> # <<bare.PkgName, bare.TypeName>>

\* C9: a driver query that met a failure, while being issued or while its
\* rows were read, made its operation return an error and the run abort
C9_QueryFailureIsError ==
    \A i \in DOMAIN calls :
        calls[i].fault # "none" =>
            /\ calls[i].failed
            /\ RunFailed

(***************************************************************************)
(* The assembler's state machine (C10)                                     *)
(***************************************************************************)
Phase ==
    CASE pc = "New" -> "Unopened"
      [] pc \in {"initTables", "assemble"} -> "Introspecting"
      [] pc = "panicked" -> "Failed"
      [] pc = "returned" -> IF err = NoErr THEN "Ready" ELSE "Failed"
      [] OTHER -> "Ready"

AllowedMoves ==
    { <<"Unopened", "Introspecting">>, <<"Introspecting", "Ready">>,
      <<"Unopened", "Failed">>, <<"Introspecting", "Failed">>, <<"Ready", "Failed">> }

InitTablesFailed == RunFailed /\ "unable to initialize tables" \in Range(err.wrap)

\* C10 as claimed: after a run that failed in initTables (fetch error, no
\* tables, primary key missing) the State holds no table list
C10_FailedDiscardsTables ==
    InitTablesFailed => Tables = << >>

\* C10 as amended: the phases move only along the allowed edges, into
\* Introspecting with an open connection and into Ready with validated
\* tables; a run that fails in initTables leaves State.Tables empty after a
\* fetch error or an empty schema, and holding the assembled tables after a
\* missing primary key
C10_PhasesAndTables ==
    [][ /\ Phase' # Phase => <<Phase, Phase'>> \in AllowedMoves
        /\ (Phase = "Unopened" /\ Phase' = "Introspecting") => dbConn' = "open"
        /\ (Phase = "Introspecting" /\ Phase' = "Ready") =>
                /\ Len(Tables') > 0
                /\ \A i \in DOMAIN Tables' : ~Tables'[i].PKey.isNil
        /\ (Phase = "Introspecting" /\ Phase' = "Failed") =>
                IF err'.msg = "primary key missing in tables"
                THEN /\ Tables' # << >>
                     /\ Range(err'.tables) \subseteq TableNamesOf(Tables')
                ELSE Tables' = << >>
      ]_vars

\* C10 witness: a run failed for a missing primary key and holds its tables
C10_Witness ==
    /\ InitTablesFailed
    /\ err.msg = "primary key missing in tables"
    /\ Len(Tables) >= 2

====
